---------------------------- MODULE Spec2Model ----------------------------
(***************************************************************************)
(* Model of submodule.py: reconciliation of a super-project's git          *)
(* submodules against the sibling projects Zuul has already checked out.   *)
(*                                                                         *)
(* Strings are sequences of one-character strings, so that parsing,        *)
(* splitting and joining are computed character by character as            *)
(* urllib.parse and pathlib compute them.                                  *)
(***************************************************************************)
EXTENDS Naturals, Sequences, FiniteSets

VARIABLES
    \* ---- pure-function calls (SpecCalls) ----
    fn,         \* which function was called last: "idle", "canonical", "rewrap",
                \* "resolve", "split"
    site,       \* argument of url2canonical_name
    submodule_url, repo_url,    \* arguments of resolve_submodule_url
    ret,        \* result of the call
    ret2,       \* result of url2canonical_name on the re-wrapped first result
    \* ---- one run of main (Spec) ----
    pc,         \* position of the script
    zuul,       \* zuul['projects']: canonical name -> project record
    gitmodules, \* sections of the super-project's .gitmodules, in file order
    args,       \* parsed command line: super_project, dry_run, recursive
    projects,   \* main's copy of zuul['projects'] without the super project
    todo,       \* canonical names the running loop still has to visit
    modules,    \* parse_gitmodules' result: canonical name -> module
    modules_to_replace, modules_to_clone,   \* the two dicts split_modules returns
    cur,        \* canonical name the running loop is at (<<>> when none)
    fs,         \* filesystem: where each directory's content is
    updates,    \* per sibling project: update_submodule calls issued on it so far
    steps,      \* per submodule: the mutating calls issued for it so far, in order
    out,        \* decisions printed so far
    error       \* exception that ended the run ("none" while running)

urlVars == <<fn, site, submodule_url, repo_url, ret, ret2>>
runVars == <<pc, zuul, gitmodules, args, projects, todo, modules, modules_to_replace,
             modules_to_clone, cur, fs, updates, steps, out, error>>
vars == <<urlVars, runVars>>

-----------------------------------------------------------------------------
(* Bounds of the model *)

\* longest path, in '/'-separated segments, of a URL given to url2canonical_name
MaxPathLen == 3
\* deepest path of a parent remote URL given to resolve_submodule_url
MaxRepoDepth == 2
\* most segments after the leading '../' of a relative submodule URL
MaxSegs == 3
\* most sections of the super-project's .gitmodules
MaxSections == 2

-----------------------------------------------------------------------------
(* str methods *)

\* str.find(c): index (from 1) of the first c in s, 0 when there is none
Find(s, c) ==
    IF \E i \in 1..Len(s) : s[i] = c
    THEN CHOOSE i \in 1..Len(s) : s[i] = c /\ \A j \in 1..(i - 1) : s[j] # c
    ELSE 0

\* str.rfind(c): index (from 1) of the last c in s, 0 when there is none
RFind(s, c) ==
    IF \E i \in 1..Len(s) : s[i] = c
    THEN CHOOSE i \in 1..Len(s) : s[i] = c /\ \A j \in (i + 1)..Len(s) : s[j] # c
    ELSE 0

\* c in s
Has(s, c) == \E i \in 1..Len(s) : s[i] = c

\* t in s, for a substring t
HasSub(s, t) == \E i \in 1..(Len(s) + 1 - Len(t)) : SubSeq(s, i, i + Len(t) - 1) = t

\* s.startswith(t)
StartsWith(s, t) == Len(s) >= Len(t) /\ SubSeq(s, 1, Len(t)) = t

\* s[:i] and s[i:] with Python's 0-based i
Upto(s, i) == SubSeq(s, 1, i)
From(s, i) == SubSeq(s, i + 1, Len(s))

\* s.split(c): always at least one (possibly empty) part
RECURSIVE Split(_, _)
Split(s, c) ==
    LET i == Find(s, c)
    IN  IF i = 0 THEN <<s>>
        ELSE <<SubSeq(s, 1, i - 1)>> \o Split(SubSeq(s, i + 1, Len(s)), c)

\* c.join(parts)
RECURSIVE Join(_, _)
Join(parts, c) ==
    IF Len(parts) = 0 THEN <<>>
    ELSE IF Len(parts) = 1 THEN parts[1]
    ELSE parts[1] \o <<c>> \o Join(Tail(parts), c)

\* s.rstrip(c): every trailing c removed
RECURSIVE RStrip(_, _)
RStrip(s, c) ==
    IF Len(s) > 0 /\ s[Len(s)] = c THEN RStrip(SubSeq(s, 1, Len(s) - 1), c) ELSE s

LowerLetters == <<"a","b","c","d","e","f","g","h","i","j","k","l","m",
                  "n","o","p","q","r","s","t","u","v","w","x","y","z">>
UpperLetters == <<"A","B","C","D","E","F","G","H","I","J","K","L","M",
                  "N","O","P","Q","R","S","T","U","V","W","X","Y","Z">>
Digits == {"0","1","2","3","4","5","6","7","8","9"}

IsAlpha(c) == Has(LowerLetters, c) \/ Has(UpperLetters, c)

\* str.lower()
LowerChar(c) == IF Has(UpperLetters, c) THEN LowerLetters[Find(UpperLetters, c)] ELSE c
Lower(s) == [i \in 1..Len(s) |-> LowerChar(s[i])]

-----------------------------------------------------------------------------
(* urllib.parse.urlparse, as far as url2canonical_name reads its result *)

\* urllib.parse.scheme_chars
SchemeChar(c) == IsAlpha(c) \/ c \in Digits \/ c \in {"+", "-", "."}

\* urllib.parse.uses_params: the schemes whose last path segment carries ;params
uses_params ==
    { <<>>, <<"f","t","p">>, <<"h","d","l">>, <<"p","r","o","s","p","e","r","o">>,
      <<"h","t","t","p">>, <<"i","m","a","p">>, <<"h","t","t","p","s">>,
      <<"s","h","t","t","p">>, <<"r","t","s","p">>, <<"r","t","s","p","s">>,
      <<"r","t","s","p","u">>, <<"s","i","p">>, <<"s","i","p","s">>,
      <<"m","m","s">>, <<"s","f","t","p">>, <<"t","e","l">> }

\* urlsplit's scheme step: [scheme, rest]
SplitScheme(url) ==
    LET i == Find(url, ":") - 1     \* Python's url.find(':')
    IN  IF i > 0 /\ IsAlpha(url[1]) /\ \A j \in 1..i : SchemeChar(url[j])
        THEN [scheme |-> Lower(Upto(url, i)), rest |-> From(url, i + 1)]
        ELSE [scheme |-> <<>>, rest |-> url]

\* _splitnetloc(url, 2): the netloc ends at the first of '/', '?', '#'
SplitNetloc(url) ==
    LET ends == {i \in 3..Len(url) : url[i] \in {"/", "?", "#"}}
        delim == IF ends = {} THEN Len(url) + 1
                 ELSE CHOOSE i \in ends : \A j \in ends : i <= j
    IN  [netloc |-> SubSeq(url, 3, delim - 1), rest |-> SubSeq(url, delim, Len(url))]

\* s cut at the first c (url.split(c, 1)[0])
Before(s, c) == IF Has(s, c) THEN SubSeq(s, 1, Find(s, c) - 1) ELSE s

\* _splitparams(url)[0]: the ;params of the last path segment are cut off
SplitParams(url) ==
    LET slash == RFind(url, "/")
        tail == SubSeq(url, IF slash = 0 THEN 1 ELSE slash, Len(url))
        i == Find(tail, ";")
    IN  IF i = 0 THEN url
        ELSE SubSeq(url, 1, (IF slash = 0 THEN 0 ELSE slash - 1) + i - 1)

\* urlsplit removes _UNSAFE_URL_BYTES_TO_REMOVE from the url first
RemoveUnsafe(url) == SelectSeq(url, LAMBDA c : c \notin {"\t", "\r", "\n"})

\* urlparse(url): [err, scheme, netloc, path]
urlparse(url) ==
    LET s == SplitScheme(RemoveUnsafe(url))
        hasNetloc == StartsWith(s.rest, <<"/", "/">>)
        n == IF hasNetloc THEN SplitNetloc(s.rest) ELSE [netloc |-> <<>>, rest |-> s.rest]
        noFrag == Before(n.rest, "#")
        noQuery == Before(noFrag, "?")
        path == IF s.scheme \in uses_params /\ Has(noQuery, ";")
                THEN SplitParams(noQuery) ELSE noQuery
    IN  IF Has(n.netloc, "[") # Has(n.netloc, "]")
        THEN [err |-> "ValueError", scheme |-> s.scheme, netloc |-> <<>>, path |-> <<>>]
        ELSE [err |-> "none", scheme |-> s.scheme, netloc |-> n.netloc, path |-> path]

\* ParseResult.hostname: <<>> stands for None
hostname(netloc) ==
    LET at == RFind(netloc, "@")
        hostinfo == SubSeq(netloc, at + 1, Len(netloc))
        br == Find(hostinfo, "[")
        bracketed == SubSeq(hostinfo, br + 1, Len(hostinfo))
        host == IF br > 0 THEN Before(bracketed, "]") ELSE Before(hostinfo, ":")
    IN  Lower(host)

-----------------------------------------------------------------------------
(* url2canonical_name and resolve_submodule_url *)

Ok(v) == [err |-> "none", val |-> v]
Raise(e) == [err |-> e, val |-> <<>>]

\* a url2canonical_name that strips one trailing '/' only
url2canonical_name_strip_one(s) ==
    LET url == urlparse(s)
        p == url.path
    IN  IF url.err # "none" THEN Raise(url.err)
        ELSE IF hostname(url.netloc) = <<>> THEN Raise("AssertionError")
        ELSE Ok(hostname(url.netloc) \o
                (IF Len(p) > 0 /\ p[Len(p)] = "/" THEN SubSeq(p, 1, Len(p) - 1) ELSE p))

url2canonical_name(s) ==
    LET url == urlparse(s)
    IN  IF url.err # "none" THEN Raise(url.err)
        ELSE IF hostname(url.netloc) = <<>> THEN Raise("AssertionError")
        ELSE Ok(hostname(url.netloc) \o RStrip(url.path, "/"))


(* pathlib.PurePath (posix flavour) for relative paths: a path is the sequence
   of its parts; parsing drops empty and '.' parts *)

\* PurePath(s) for an s that does not start with '/'
PurePath(s) == SelectSeq(Split(s, "/"), LAMBDA part : part # <<>> /\ part # <<".">>)

\* path.parent: the parent of the empty path is the empty path
parent(path) == IF Len(path) = 0 THEN path ELSE SubSeq(path, 1, Len(path) - 1)

\* path / dir_
joinpath(path, dir) == path \o PurePath(dir)

\* str(path)
str(path) == IF Len(path) = 0 THEN <<".">> ELSE Join(path, "/")

\* a loop that refuses to step above the first component (the host)
RECURSIVE walk_keep_host(_, _)
walk_keep_host(path, dirs) ==
    IF Len(dirs) = 0 THEN Ok(str(path))
    ELSE IF Head(dirs) = <<".", ".">>
         THEN IF Len(path) <= 1 THEN Raise("ValueError")
              ELSE walk_keep_host(parent(path), Tail(dirs))
         ELSE walk_keep_host(joinpath(path, Head(dirs)), Tail(dirs))

\* the for loop of resolve_submodule_url over submodule_url.split('/')
RECURSIVE walk(_, _)
walk(path, dirs) ==
    IF Len(dirs) = 0 THEN Ok(str(path))
    ELSE IF Head(dirs) = <<".", ".">>
         THEN IF path = parent(path) THEN Raise("ValueError")
              ELSE walk(parent(path), Tail(dirs))
         ELSE walk(joinpath(path, Head(dirs)), Tail(dirs))

resolve_submodule_url(sub, repo) ==
    IF HasSub(sub, <<":", "/", "/">>) THEN url2canonical_name(sub)
    ELSE IF ~StartsWith(sub, <<".", ".", "/">>) THEN Raise("AssertionError")
    ELSE LET cname == url2canonical_name(repo)
         IN  IF cname.err # "none" THEN cname
             ELSE walk(PurePath(cname.val), Split(sub, "/"))

-----------------------------------------------------------------------------
(* The inputs of the pure functions *)

\* all sequences over S of length at most n
RECURSIVE SeqsUpTo(_, _)
SeqsUpTo(S, n) ==
    IF n = 0 THEN {<<>>}
    ELSE LET shorter == SeqsUpTo(S, n - 1)
         IN  shorter \cup {<<x>> \o t : x \in S, t \in {u \in shorter : Len(u) = n - 1}}

\* '/' before every segment
RECURSIVE SlashEach(_)
SlashEach(segs) ==
    IF Len(segs) = 0 THEN <<>> ELSE <<"/">> \o Head(segs) \o SlashEach(Tail(segs))

SchemeSep == <<":", "/", "/">>
Schemes == {<<"s","s","h">>, <<"h","t","t","p","s">>}
Authorities == { <<"h">>, <<"u",":","p","@","H",":","1">>,
                 <<"[",":",":","1","]",":","1">> }
PathSegs == { <<"a">>, <<>>, <<"b",";","p">>, <<"c","?","q">> }

Urls == { s \o SchemeSep \o a \o SlashEach(p) :
            s \in Schemes, a \in Authorities, p \in SeqsUpTo(PathSegs, MaxPathLen) }

RelSegs == { <<".", ".">>, <<"f">>, <<>>, <<".">> }
RelativeUrls == { <<".", ".">> \o SlashEach(p) :
                    p \in SeqsUpTo(RelSegs, MaxSegs) \ {<<>>} }
AbsoluteUrls == { <<"h","t","t","p","s">> \o SchemeSep \o <<"h","/","f","/">>,
                  <<"s","s","h">> \o SchemeSep \o <<"u","@","H",":","1","/","t","/","f">> }
SubmoduleUrls == RelativeUrls \cup AbsoluteUrls \cup {<<"f">>}

RepoSegs == { <<"t">>, <<>>, <<".">> }
RepoUrls == { pre \o SlashEach(p) :
                pre \in { <<"s","s","h">> \o SchemeSep \o <<"h",":","1">>,
                          <<"h","t","t","p","s">> \o SchemeSep \o <<"H">> },
                p \in SeqsUpTo(RepoSegs, MaxRepoDepth) }

-----------------------------------------------------------------------------
(* Calls of the pure functions *)

NoCall == Raise("not called")

InitUrl ==
    /\ fn = "idle"
    /\ site = <<>>
    /\ submodule_url = <<>>
    /\ repo_url = <<>>
    /\ ret = NoCall
    /\ ret2 = NoCall

\* url2canonical_name(u)
CallCanonical ==
    /\ fn = "idle"
    /\ \E u \in Urls :
        /\ site' = u
        /\ ret' = url2canonical_name(u)
    /\ fn' = "canonical"
    /\ UNCHANGED <<submodule_url, repo_url, ret2>>
    /\ UNCHANGED runVars

\* url2canonical_name(s + '://' + previous result)
CallRewrap ==
    /\ fn = "canonical"
    /\ ret.err = "none"
    /\ \E s \in Schemes :
        /\ repo_url' = s \o SchemeSep \o ret.val
        /\ ret2' = url2canonical_name(s \o SchemeSep \o ret.val)
    /\ fn' = "rewrap"
    /\ UNCHANGED <<site, submodule_url, ret>>
    /\ UNCHANGED runVars

\* resolve_submodule_url(sub, repo)
CallResolve ==
    /\ fn = "idle"
    /\ \E sub \in SubmoduleUrls, repo \in RepoUrls :
        /\ submodule_url' = sub
        /\ repo_url' = repo
        /\ ret' = resolve_submodule_url(sub, repo)
    /\ fn' = "resolve"
    /\ UNCHANGED <<site, ret2>>
    /\ UNCHANGED runVars

-----------------------------------------------------------------------------
(* One run of main *)

inputVars == <<zuul, gitmodules, args>>

SuperName == <<"h","/","t","/","s">>
SiblingA == <<"h","/","t","/","a">>
SiblingB == <<"h","/","t","/","b">>
Unknown == <<"h","/","t","/","c">>
Siblings == {SiblingA, SiblingB}

\* what 'git remote get-url origin' prints for the super project
SuperRemote == <<"s","s","h">> \o SchemeSep \o <<"h",":","1","/","t","/","s","\n">>

\* the url values of the .gitmodules sections: sibling a (relative), sibling b
\* (absolute, another scheme), a project Zuul does not know, the super project
SectionUrls ==
    { <<".",".","/","a">>,
      <<"h","t","t","p","s">> \o SchemeSep \o <<"H","/","t","/","b","/">>,
      <<".",".","/","c">>,
      <<".",".","/","s">> }
\* module['branch']: NoBranch stands for a module without the key
NoBranch == ""
Branches == {NoBranch, "stable"}
\* what the directory at a submodule path is before the run
DirStates == {"empty", "nonempty", "missing"}
NoCur == <<>>

\* path (and abspath) of the i-th section: the number i stands for 'lib<i>'
PathOf(i) == i
\* src_dir of a zuul project
SrcDir(name) == <<"src/">> \o name
\* where a project's working tree is: 0 is its src_dir, i > 0 the path of section i
InPlace == 0

\* dict.pop(key) that removes nothing
pop_nothing(d, key) == d

\* d.copy() followed by d.pop(key), for a key of d
pop(d, key) == [k \in DOMAIN d \ {key} |-> d[k]]

\* modules[cname] = module
Put(d, key, val) == [k \in DOMAIN d \cup {key} |-> IF k = key THEN val ELSE d[k]]

\* the empty dict
EmptyDict == [k \in {} |-> {}]

\* resolve_submodule_url on the urls a run meets, computed once
Resolved == [u \in SectionUrls, r \in {SuperRemote} |-> resolve_submodule_url(u, r)]

\* the loop of parse_gitmodules over cfg.sections(): [err, val], val the dict so far
RECURSIVE parse_sections(_, _, _)
parse_sections(sections, remote, acc) ==
    IF Len(sections) = 0 THEN [err |-> "none", val |-> acc]
    ELSE IF Resolved[Head(sections).url, remote].err # "none"
    THEN [err |-> Resolved[Head(sections).url, remote].err, val |-> acc]
    ELSE parse_sections(Tail(sections), remote,
            Put(acc, Resolved[Head(sections).url, remote].val,
                [path |-> Head(sections).path, branch |-> Head(sections).branch]))

\* parse_gitmodules(super_project['src_dir'] / '.gitmodules'), once the remote is known
parse_gitmodules == parse_sections(gitmodules, SuperRemote, EmptyDict)

\* a split whose second dict is every module
split_modules_clone_all(mods, projs) ==
    [to_replace |-> [c \in DOMAIN projs \cap DOMAIN mods |-> mods[c]],
     to_clone |-> mods]

\* split_modules: the two dicts (modules_to_replace, modules_to_clone)
split_modules(mods, projs) ==
    LET project_cnames == DOMAIN projs
        module_cnames == DOMAIN mods
        to_replace_cnames == project_cnames \cap module_cnames
        to_clone_cnames == module_cnames \ project_cnames
    IN  [to_replace |-> [cname \in to_replace_cnames |-> mods[cname]],
         to_clone |-> [cname \in to_clone_cnames |-> mods[cname]]]

\* the (url, branch) lists a .gitmodules may declare, in file order
SectionLists == SeqsUpTo(SectionUrls \X Branches, MaxSections)

\* zuul['projects'][name]; has_gitmodules: whether src_dir/.gitmodules exists
ZuulProject(name, has) ==
    [canonical_name |-> name, src_dir |-> SrcDir(name), has_gitmodules |-> has]

InitRun ==
    /\ pc = "main"
    /\ \E a, b \in BOOLEAN :
         zuul = [k \in Siblings \cup {SuperName} |->
                   ZuulProject(k, IF k = SiblingA THEN a ELSE IF k = SiblingB THEN b ELSE TRUE)]
    /\ \E secs \in SectionLists :
         /\ gitmodules = [i \in 1..Len(secs) |->
                            [url |-> secs[i][1], branch |-> secs[i][2], path |-> PathOf(i)]]
         /\ \E dirs \in [{PathOf(i) : i \in 1..Len(secs)} -> DirStates] :
              fs = [dirs |-> dirs,
                    trees |-> [k \in Siblings \cup {SuperName} |-> InPlace],
                    head |-> [q \in {PathOf(i) : i \in 1..Len(secs)} |-> NoBranch]]
    /\ \E d, r \in BOOLEAN :
         args = [super_project |-> SuperName, dry_run |-> d, recursive |-> r]
    /\ projects = EmptyDict
    /\ todo = {}
    /\ modules = EmptyDict
    /\ modules_to_replace = EmptyDict
    /\ modules_to_clone = EmptyDict
    /\ cur = NoCur
    /\ updates = [k \in Siblings \cup {SuperName} |-> 0]
    /\ steps = EmptyDict
    /\ out = {}
    /\ error = "none"

\* a main that reconciles the super project first and never updates the siblings
MainSuperFirst ==
    /\ pc = "main"
    /\ error = "none"
    /\ projects' = pop(zuul, zuul[args.super_project].canonical_name)
    /\ todo' = {}
    /\ pc' = "parse"
    /\ UNCHANGED <<urlVars, inputVars, modules, modules_to_replace, modules_to_clone,
                   cur, fs, updates, steps, out, error>>

\* main, lines 220-226: the copy of zuul['projects'] without the super project
Main ==
    /\ pc = "main"
    /\ error = "none"
    /\ projects' = pop(zuul, zuul[args.super_project].canonical_name)
    /\ todo' = DOMAIN projects'
    /\ pc' = IF DOMAIN projects' = {} THEN "parse" ELSE "update_projects"
    /\ UNCHANGED <<urlVars, inputVars, modules, modules_to_replace, modules_to_clone,
                   cur, fs, updates, steps, out, error>>

\* one iteration of update_projects' loop, lines 138-145
UpdateProject ==
    /\ pc = "update_projects"
    /\ error = "none"
    /\ \E name \in todo :
        /\ todo' = todo \ {name}
        /\ IF ~projects[name].has_gitmodules
           THEN /\ out' = out \cup {<<"no .gitmodules found", name>>}
                /\ UNCHANGED <<updates, error>>
           ELSE /\ out' = out \cup {<<"cloning submodules", name>>}
                /\ IF args.dry_run
                   THEN UNCHANGED <<updates, error>>
                   ELSE /\ updates' = [updates EXCEPT ![name] = @ + 1]
                        /\ \E ok \in BOOLEAN :
                             error' = IF ok THEN "none" ELSE "CalledProcessError"
        /\ pc' = IF todo \ {name} = {} /\ error' = "none" THEN "parse" ELSE pc
    /\ UNCHANGED <<urlVars, inputVars, projects, modules, modules_to_replace,
                   modules_to_clone, cur, fs, steps>>

\* where the script goes when a loop over `rest` has the dict `clone` waiting behind it
NextLoop(rest, clone) ==
    IF rest # {} THEN [pc |-> "replace", todo |-> rest]
    ELSE IF DOMAIN clone # {} THEN [pc |-> "clone", todo |-> DOMAIN clone]
    ELSE [pc |-> "done", todo |-> {}]

\* update_super_project, lines 155-162: parse_gitmodules and split_modules
ParseGitmodules ==
    /\ pc = "parse"
    /\ error = "none"
    /\ IF Len(gitmodules) = 0
       THEN \* cfg.read finds no file: no remote is asked for, nothing to do
            /\ pc' = "done"
            /\ UNCHANGED <<modules, modules_to_replace, modules_to_clone, todo, steps, error>>
       ELSE \E ok \in BOOLEAN, parsed \in {parse_gitmodules} :
            IF ~ok \/ parsed.err # "none"
            THEN \* get_remote_url or resolve_submodule_url raises
                 /\ error' = IF ~ok THEN "CalledProcessError" ELSE parsed.err
                 /\ UNCHANGED <<pc, modules, modules_to_replace, modules_to_clone, todo, steps>>
            ELSE /\ modules' = parsed.val
                 /\ \E split \in {split_modules(parsed.val, projects)} :
                      /\ modules_to_replace' = split.to_replace
                      /\ modules_to_clone' = split.to_clone
                      /\ pc' = NextLoop(DOMAIN split.to_replace, split.to_clone).pc
                      /\ todo' = NextLoop(DOMAIN split.to_replace, split.to_clone).todo
                 /\ steps' = [k \in DOMAIN parsed.val |-> <<>>]
                 /\ UNCHANGED error
    /\ UNCHANGED <<urlVars, inputVars, projects, cur, fs, updates, out>>

\* a loop head that ignores --dry-run
ReplaceBeginIgnoringDryRun ==
    /\ pc = "replace"
    /\ error = "none"
    /\ \E m \in todo :
        /\ out' = out \cup {<<"Replace submodule", m>>}
        /\ pc' = "rmdir"
        /\ todo' = todo \ {m}
        /\ cur' = m
    /\ UNCHANGED <<urlVars, inputVars, projects, modules, modules_to_replace,
                   modules_to_clone, fs, updates, steps, error>>

\* the replace loop, lines 164-171: the next module is named and reported
ReplaceBegin ==
    /\ pc = "replace"
    /\ error = "none"
    /\ \E m \in todo :
        /\ out' = out \cup {<<"Replace submodule", m>>}
        /\ todo' = IF args.dry_run THEN NextLoop(todo \ {m}, modules_to_clone).todo
                   ELSE todo \ {m}
        /\ pc' = IF args.dry_run THEN NextLoop(todo \ {m}, modules_to_clone).pc
                 ELSE "rmdir"
        /\ cur' = IF args.dry_run THEN NoCur ELSE m
    /\ UNCHANGED <<urlVars, inputVars, projects, modules, modules_to_replace,
                   modules_to_clone, fs, updates, steps, error>>

\* the end of a replace iteration: back to the loop head, or on to the clone loop
EndReplace ==
    /\ pc' = NextLoop(todo, modules_to_clone).pc
    /\ todo' = NextLoop(todo, modules_to_clone).todo
    /\ cur' = NoCur

\* an rmdir whose failure is caught: the loop goes on with the next module
RmdirBestEffort ==
    /\ pc = "rmdir"
    /\ error = "none"
    /\ steps' = [steps EXCEPT ![cur] = Append(@, "rmdir")]
    /\ IF fs.dirs[modules_to_replace[cur].path] = "empty"
       THEN /\ fs' = [fs EXCEPT !.dirs[modules_to_replace[cur].path] = "removed"]
            /\ pc' = "move"
            /\ UNCHANGED <<todo, cur>>
       ELSE EndReplace /\ UNCHANGED fs
    /\ UNCHANGED <<urlVars, inputVars, projects, modules, modules_to_replace,
                   modules_to_clone, updates, out, error>>

\* module_abspath.rmdir(), line 172
Rmdir ==
    /\ pc = "rmdir"
    /\ error = "none"
    /\ steps' = [steps EXCEPT ![cur] = Append(@, "rmdir")]
    /\ IF fs.dirs[modules_to_replace[cur].path] = "empty"
       THEN /\ fs' = [fs EXCEPT !.dirs[modules_to_replace[cur].path] = "removed"]
            /\ pc' = "move"
            /\ UNCHANGED error
       ELSE /\ error' = IF fs.dirs[modules_to_replace[cur].path] = "missing"
                        THEN "FileNotFoundError" ELSE "OSError"
            /\ UNCHANGED <<fs, pc>>
    /\ UNCHANGED <<urlVars, inputVars, projects, todo, modules, modules_to_replace,
                   modules_to_clone, cur, updates, out>>

\* a move that always goes on to the submodule commands
MoveAlwaysInit ==
    /\ pc = "move"
    /\ error = "none"
    /\ steps' = [steps EXCEPT ![cur] = Append(@, "move")]
    /\ fs' = [fs EXCEPT !.dirs[modules_to_replace[cur].path] = "moved tree",
                        !.trees[cur] = modules_to_replace[cur].path]
    /\ pc' = "init"
    /\ UNCHANGED <<urlVars, inputVars, projects, todo, modules, modules_to_replace,
                   modules_to_clone, cur, updates, out, error>>

\* shutil.move(src_absdir, module_abspath) and the branch test, lines 173-176;
\* src_absdir is the src_dir of projects[module_cname]
Move ==
    /\ pc = "move"
    /\ error = "none"
    /\ steps' = [steps EXCEPT ![cur] = Append(@, "move")]
    /\ fs' = [fs EXCEPT !.dirs[modules_to_replace[cur].path] = "moved tree",
                        !.trees[projects[cur].canonical_name] = modules_to_replace[cur].path]
    /\ IF modules_to_replace[cur].branch = NoBranch
       THEN EndReplace
       ELSE pc' = "init" /\ UNCHANGED <<todo, cur>>
    /\ UNCHANGED <<urlVars, inputVars, projects, modules, modules_to_replace,
                   modules_to_clone, updates, out, error>>

\* a git command on the current module that is run again when it fails
GitStepRetry(at, op, then) ==
    /\ pc = at
    /\ error = "none"
    /\ \E ok \in BOOLEAN :
         steps' = [steps EXCEPT ![cur] =
                     IF ok THEN Append(@, op) ELSE Append(Append(@, op), op)]
    /\ pc' = then
    /\ UNCHANGED <<urlVars, inputVars, projects, todo, modules, modules_to_replace,
                   modules_to_clone, cur, fs, updates, out, error>>

\* subprocess.run(['git', ..., 'submodule', op, module['path']], check=True)
GitStep(at, op, then) ==
    /\ pc = at
    /\ error = "none"
    /\ steps' = [steps EXCEPT ![cur] = Append(@, op)]
    /\ \E ok \in BOOLEAN :
        /\ error' = IF ok THEN "none" ELSE "CalledProcessError"
        /\ pc' = IF ok THEN then ELSE pc
    /\ UNCHANGED <<urlVars, inputVars, projects, todo, modules, modules_to_replace,
                   modules_to_clone, cur, fs, updates, out>>

\* git submodule init, lines 179-181
SubmoduleInit == GitStep("init", "init", "absorb")

\* git submodule absorbgitdirs, lines 182-184
Absorb == GitStep("absorb", "absorbgitdirs", "checkout")

\* git checkout <branch>, lines 187-191
Checkout ==
    /\ pc = "checkout"
    /\ error = "none"
    /\ steps' = [steps EXCEPT ![cur] = Append(@, "checkout")]
    /\ \E ok \in BOOLEAN :
        IF ok
        THEN /\ fs' = [fs EXCEPT !.head[modules_to_replace[cur].path] =
                                    modules_to_replace[cur].branch]
             /\ IF args.recursive
                THEN pc' = "nested" /\ UNCHANGED <<todo, cur>>
                ELSE EndReplace
             /\ UNCHANGED error
        ELSE /\ error' = "CalledProcessError"
             /\ UNCHANGED <<fs, pc, todo, cur>>
    /\ UNCHANGED <<urlVars, inputVars, projects, modules, modules_to_replace,
                   modules_to_clone, updates, out>>

\* update_submodule(module_abspath, recursive), line 192
NestedUpdate ==
    /\ pc = "nested"
    /\ error = "none"
    /\ steps' = [steps EXCEPT ![cur] = Append(@, "update")]
    /\ \E ok \in BOOLEAN :
        IF ok
        THEN EndReplace /\ UNCHANGED error
        ELSE error' = "CalledProcessError" /\ UNCHANGED <<pc, todo, cur>>
    /\ UNCHANGED <<urlVars, inputVars, projects, modules, modules_to_replace,
                   modules_to_clone, fs, updates, out>>

\* one iteration of the clone loop, lines 194-201
CloneEntry ==
    /\ pc = "clone"
    /\ error = "none"
    /\ \E m \in todo :
        /\ out' = out \cup {<<"Cloning submodule", m>>}
        /\ todo' = todo \ {m}
        /\ IF args.dry_run
           THEN /\ pc' = IF todo \ {m} = {} THEN "done" ELSE pc
                /\ UNCHANGED <<cur, fs, steps, error>>
           ELSE /\ steps' = [steps EXCEPT ![m] = Append(@, "update_path")]
                /\ \E ok \in BOOLEAN :
                    IF ok
                    THEN /\ fs' = [fs EXCEPT !.dirs[modules_to_clone[m].path] = "cloned"]
                         /\ pc' = IF todo \ {m} = {} THEN "done" ELSE pc
                         /\ UNCHANGED <<cur, error>>
                    ELSE /\ error' = "CalledProcessError"
                         /\ cur' = m
                         /\ UNCHANGED <<fs, pc>>
    /\ UNCHANGED <<urlVars, inputVars, projects, modules, modules_to_replace,
                   modules_to_clone, updates>>

NextRun ==
    \/ Main
    \/ UpdateProject
    \/ ParseGitmodules
    \/ ReplaceBegin
    \/ Rmdir
    \/ Move
    \/ SubmoduleInit
    \/ Absorb
    \/ Checkout
    \/ NestedUpdate
    \/ CloneEntry

-----------------------------------------------------------------------------
(* split_modules called on its own *)

SplitNames == {SuperName, SiblingA, SiblingB, Unknown}
\* every dict of modules over the names
Registries ==
    UNION {[D -> {[path |-> PathOf(1), branch |-> b] : b \in Branches}] : D \in SUBSET SplitNames}
\* every dict of zuul projects over the names
Indexes == {[k \in P |-> ZuulProject(k, TRUE)] : P \in SUBSET SplitNames}

\* split_modules(S, P)
CallSplit ==
    /\ fn = "idle"
    /\ \E S \in Registries, P \in Indexes :
        /\ modules' = S
        /\ projects' = P
        /\ \E split \in {split_modules(S, P)} :
             /\ modules_to_replace' = split.to_replace
             /\ modules_to_clone' = split.to_clone
    /\ fn' = "split"
    /\ UNCHANGED <<site, submodule_url, repo_url, ret, ret2>>
    /\ UNCHANGED <<inputVars, pc, todo, cur, fs, updates, steps, out, error>>

-----------------------------------------------------------------------------
(* The specifications *)

\* the run variables while the pure functions are exercised
IdleRun ==
    /\ pc = "idle"
    /\ zuul = EmptyDict
    /\ gitmodules = <<>>
    /\ args = [super_project |-> SuperName, dry_run |-> TRUE, recursive |-> FALSE]
    /\ projects = EmptyDict
    /\ todo = {}
    /\ modules = EmptyDict
    /\ modules_to_replace = EmptyDict
    /\ modules_to_clone = EmptyDict
    /\ cur = NoCur
    /\ fs = [dirs |-> EmptyDict, trees |-> EmptyDict, head |-> EmptyDict]
    /\ updates = EmptyDict
    /\ steps = EmptyDict
    /\ out = {}
    /\ error = "none"

\* one run of main on any of the modelled inputs
Init == InitUrl /\ InitRun
Next == NextRun
Spec == Init /\ [][Next]_vars

\* calls of url2canonical_name, resolve_submodule_url and split_modules on the
\* modelled inputs
InitCalls == InitUrl /\ IdleRun
NextCalls == CallCanonical \/ CallRewrap \/ CallResolve \/ CallSplit
SpecCalls == InitCalls /\ [][NextCalls]_vars

\* a run of main that is not stopped from outside: the script, one sequential
\* process, takes its next step as long as it has one
FairSpec == Spec /\ WF_vars(Next)

-----------------------------------------------------------------------------
(* Properties of split_modules *)

\* C1: split_modules(S, P) returns two dicts whose key sets are disjoint and
\* together are the keys of S; the first holds exactly the keys of S that are
\* keys of P; every key maps to the entry it maps to in S.
C1_SplitPartitions ==
    fn = "split" =>
        /\ DOMAIN modules_to_replace \cap DOMAIN modules_to_clone = {}
        /\ DOMAIN modules_to_replace \cup DOMAIN modules_to_clone = DOMAIN modules
        /\ DOMAIN modules_to_replace = {k \in DOMAIN modules : k \in DOMAIN projects}
        /\ \A k \in DOMAIN modules_to_replace : modules_to_replace[k] = modules[k]
        /\ \A k \in DOMAIN modules_to_clone : modules_to_clone[k] = modules[k]

\* a split with known and unknown modules, pinned and not
C1_Witness ==
    /\ fn = "split"
    /\ DOMAIN modules = {SiblingA, SiblingB, Unknown}
    /\ DOMAIN projects = {SuperName, SiblingA}
    /\ DOMAIN modules_to_replace = {SiblingA}
    /\ DOMAIN modules_to_clone = {SiblingB, Unknown}
    /\ modules[SiblingA].branch = "stable"

-----------------------------------------------------------------------------
(* Properties of a run *)

SuperCanonicalName == zuul[args.super_project].canonical_name

\* C2: once main has made its copy, the super project is not in the index of
\* known projects, so it is never among the modules to replace and its own
\* source directory is never moved, also when a declared submodule resolves
\* to the super project's own canonical name.
C2_SuperNeverReplaced ==
    pc # "main" =>
        /\ SuperCanonicalName \notin DOMAIN projects
        /\ SuperCanonicalName \notin DOMAIN modules_to_replace
        /\ fs.trees[SuperCanonicalName] = InPlace
        /\ SuperCanonicalName \in DOMAIN steps =>
             \A i \in 1..Len(steps[SuperCanonicalName]) :
                 steps[SuperCanonicalName][i] \notin {"rmdir", "move"}

\* a finished real run whose .gitmodules names the super project itself
C2_Witness ==
    /\ pc = "done"
    /\ ~args.dry_run
    /\ SuperCanonicalName \in DOMAIN modules
    /\ DOMAIN modules_to_replace # {}
    /\ steps[SuperCanonicalName] = <<"update_path">>

\* C3: a mutating step on a submodule of the super project is issued only when
\* update_projects is over and every sibling with a .gitmodules file has had
\* its submodule update; a sibling's tree is moved only after its own update.
C3_SiblingsUpdatedFirst ==
    /\ \A m \in DOMAIN steps :
         steps[m] # <<>> =>
            /\ pc \notin {"main", "update_projects"}
            /\ \A k \in DOMAIN projects :
                 projects[k].has_gitmodules => updates[k] = 1
    /\ \A k \in DOMAIN projects :
         fs.trees[k] # InPlace /\ projects[k].has_gitmodules => updates[k] = 1

\* a sibling with a .gitmodules file has been moved into a submodule path
C3_Witness ==
    \E k \in DOMAIN projects :
        /\ projects[k].has_gitmodules
        /\ fs.trees[k] # InPlace
        /\ updates[k] = 1

\* C4: with --dry-run no step of the run changes the filesystem or issues a
\* submodule update, rmdir, move, init, absorbgitdirs or checkout, and a run that
\* ends has reported every replace and every clone decision.
C4_DryRunMutatesNothing ==
    [][args.dry_run =>
         /\ fs' = fs
         /\ updates' = updates
         /\ \A m \in DOMAIN steps' : steps'[m] = <<>>
         /\ pc' = "done" =>
              /\ \A m \in DOMAIN modules_to_replace' : <<"Replace submodule", m>> \in out'
              /\ \A m \in DOMAIN modules_to_clone' : <<"Cloning submodule", m>> \in out'
      ]_vars

\* a finished dry run that reported a replace and a clone, siblings with .gitmodules
C4_Witness ==
    /\ args.dry_run
    /\ args.recursive
    /\ pc = "done"
    /\ \A k \in DOMAIN projects : projects[k].has_gitmodules
    /\ \E m \in DOMAIN modules_to_replace : <<"Replace submodule", m>> \in out
    /\ \E m \in DOMAIN modules_to_clone : <<"Cloning submodule", m>> \in out

ReplacePcs == {"replace", "rmdir", "move", "init", "absorb", "checkout", "nested"}
Terminal == {"Replaced-Unpinned", "Replaced-Pinned-Checked-Out", "Cloned", "Failed"}

\* the state of a submodule entry of a real run, read off the loops' progress
EntryState(m) ==
    IF cur = m /\ error # "none" THEN "Failed"
    ELSE IF m \in DOMAIN modules_to_replace
    THEN IF pc \in ReplacePcs /\ (m \in todo \/ m = cur) THEN "Replace-Pending"
         ELSE IF modules_to_replace[m].branch = NoBranch THEN "Replaced-Unpinned"
         ELSE "Replaced-Pinned-Checked-Out"
    ELSE IF pc \in ReplacePcs \/ (pc = "clone" /\ m \in todo) THEN "Clone-Pending"
         ELSE "Cloned"

\* rmdir was called for m and its directory is still what it was
RmdirFailed(m) ==
    /\ m \in DOMAIN modules_to_replace
    /\ steps[m] = <<"rmdir">>
    /\ fs.dirs[modules_to_replace[m].path] \in {"nonempty", "missing"}

\* C5 as claimed: after a failed rmdir the other entries are still processed, so
\* the run does not end while another entry is pending.
C5_OthersStillProcessed ==
    \A m \in DOMAIN modules :
        RmdirFailed(m) /\ (\E o \in DOMAIN modules : EntryState(o) \notin Terminal)
            => ENABLED Next

\* C5 amended: a failed rmdir makes its entry Failed and ends the run with an
\* OSError: no further step is taken, and the entries not yet reached stay
\* unprocessed, with no call issued for them.
C5_RmdirFailureAborts ==
    \A m \in DOMAIN modules :
        RmdirFailed(m) =>
            /\ error \in {"OSError", "FileNotFoundError"}
            /\ EntryState(m) = "Failed"
            /\ ~ENABLED Next
            /\ \A o \in DOMAIN modules \ {m} :
                 EntryState(o) \notin Terminal => steps[o] = <<>>

\* an rmdir failed while a replace entry and a clone entry were still waiting
C5_Witness ==
    /\ cur # NoCur
    /\ RmdirFailed(cur)
    /\ error = "OSError"
    /\ \E o \in DOMAIN modules_to_clone : EntryState(o) = "Clone-Pending" /\ steps[o] = <<>>

\* no call occurs twice in a sequence of calls
NoCallTwice(calls) == \A i, j \in 1..Len(calls) : calls[i] = calls[j] => i = j

\* C6: a git command that exits non-zero ends the run at once: no command is
\* issued twice for a sibling or a submodule, and from the failure on no step
\* is taken.
C6_GitFailureAborts ==
    /\ \A m \in DOMAIN steps : NoCallTwice(steps[m])
    /\ \A k \in DOMAIN updates : updates[k] <= 1
    /\ error = "CalledProcessError" => ~ENABLED Next

\* a git command failed on an entry while another entry was still waiting
C6_Witness ==
    /\ error = "CalledProcessError"
    /\ cur # NoCur
    /\ Len(steps[cur]) >= 3
    /\ \E o \in DOMAIN modules : o # cur /\ EntryState(o) \notin Terminal /\ steps[o] = <<>>

\* the calls a real run issues for entry m, in order
ExpectedSteps(m) ==
    IF m \in DOMAIN modules_to_replace
    THEN <<"rmdir", "move">> \o
         (IF modules_to_replace[m].branch = NoBranch THEN <<>>
          ELSE <<"init", "absorbgitdirs", "checkout">> \o
               (IF args.recursive THEN <<"update">> ELSE <<>>))
    ELSE <<"update_path">>

IsPrefix(s, t) == Len(s) <= Len(t) /\ SubSeq(t, 1, Len(s)) = s

\* what the filesystem holds for entry m once it is in its terminal state
Placed(m) ==
    IF m \in DOMAIN modules_to_replace
    THEN /\ fs.trees[m] = modules_to_replace[m].path
         /\ fs.dirs[modules_to_replace[m].path] = "moved tree"
         /\ fs.head[modules_to_replace[m].path] = modules_to_replace[m].branch
    ELSE fs.dirs[modules_to_clone[m].path] = "cloned"

\* C9: in a real run the calls issued for an entry are always a prefix of:
\* rmdir, move and, only with a pinned branch, init, absorbgitdirs, checkout and
\* (only if recursive) the nested update for a replace entry; one scoped update
\* for a clone entry. An entry in a terminal state keeps it and gets no further
\* call. A run goes on until it is done unless a call fails; when it is done
\* every entry has had exactly its calls and is Replaced-Unpinned,
\* Replaced-Pinned-Checked-Out or Cloned.
C9_EntryLifeCycle ==
    /\ [](~args.dry_run =>
            /\ \A m \in DOMAIN steps : IsPrefix(steps[m], ExpectedSteps(m))
            /\ error = "none" /\ pc # "done" => ENABLED Next
            /\ pc = "done" =>
                 \A m \in DOMAIN modules :
                    /\ steps[m] = ExpectedSteps(m)
                    /\ Placed(m)
                    /\ EntryState(m) =
                         IF m \in DOMAIN modules_to_clone THEN "Cloned"
                         ELSE IF modules_to_replace[m].branch = NoBranch
                         THEN "Replaced-Unpinned" ELSE "Replaced-Pinned-Checked-Out")
    /\ [][~args.dry_run =>
            \A m \in DOMAIN modules :
                EntryState(m) \in Terminal =>
                    /\ EntryState(m)' = EntryState(m)
                    /\ steps'[m] = steps[m]
         ]_vars
    /\ (~args.dry_run ~> (pc = "done" \/ error # "none"))

\* a finished recursive real run with a pinned and an unpinned replaced entry
C9_Witness ==
    /\ pc = "done"
    /\ ~args.dry_run
    /\ args.recursive
    /\ \E m, o \in DOMAIN modules_to_replace :
        /\ steps[m] = <<"rmdir", "move", "init", "absorbgitdirs", "checkout", "update">>
        /\ EntryState(m) = "Replaced-Pinned-Checked-Out"
        /\ steps[o] = <<"rmdir", "move">>
        /\ EntryState(o) = "Replaced-Unpinned"

-----------------------------------------------------------------------------
(* Properties of url2canonical_name and resolve_submodule_url *)

\* the walk over a list of path components: '..' removes the last component and
\* fails when none is left, any other segment is appended
RECURSIVE ListWalk(_, _)
ListWalk(comps, segs) ==
    IF Len(segs) = 0 THEN Ok(Join(comps, "/"))
    ELSE IF Head(segs) = <<".", ".">>
         THEN IF Len(comps) = 0 THEN Raise("ValueError")
              ELSE ListWalk(SubSeq(comps, 1, Len(comps) - 1), Tail(segs))
         ELSE ListWalk(Append(comps, Head(segs)), Tail(segs))

\* the segments that name something: not empty, not '.'
Named(segs) == SelectSeq(segs, LAMBDA x : x # <<>> /\ x # <<".">>)

\* the result C7 describes
Described(sub, repo) ==
    IF HasSub(sub, SchemeSep) THEN url2canonical_name(sub)
    ELSE IF url2canonical_name(repo).err # "none" THEN url2canonical_name(repo)
    ELSE ListWalk(Split(url2canonical_name(repo).val, "/"), Split(sub, "/"))

\* the result C7 describes, empty and '.' segments ignored and the path without
\* components written '.'
DescribedNamed(sub, repo) ==
    IF HasSub(sub, SchemeSep) THEN url2canonical_name(sub)
    ELSE IF url2canonical_name(repo).err # "none" THEN url2canonical_name(repo)
    ELSE LET r == ListWalk(Named(Split(url2canonical_name(repo).val, "/")),
                           Named(Split(sub, "/")))
         IN  IF r.err = "none" /\ r.val = <<>> THEN Ok(<<".">>) ELSE r

\* a submodule url of one of the two shapes resolve_submodule_url accepts
Accepted(sub) == HasSub(sub, SchemeSep) \/ StartsWith(sub, <<".", ".", "/">>)

\* C7 as claimed: an absolute submodule url resolves to its canonical name, a
\* relative one to the walk from the parent's canonical name in which every
\* segment other than '..' is appended as a component.
C7_ResolveAsDescribed ==
    fn = "resolve" /\ Accepted(submodule_url) =>
        ret = Described(submodule_url, repo_url)

\* C7 amended: the same, except that empty and '.' segments of the parent's
\* canonical name and of the submodule url are skipped, and a walk that ends
\* with no component left returns '.'.
C7_ResolveSkipsEmptyAndDot ==
    fn = "resolve" /\ Accepted(submodule_url) =>
        ret = DescribedNamed(submodule_url, repo_url)

\* '../../f/f' against ssh://h:1/t/t gives h/f/f
C7_Witness ==
    /\ fn = "resolve"
    /\ submodule_url = <<".",".","/",".",".","/","f","/","f">>
    /\ repo_url = <<"s","s","h">> \o SchemeSep \o <<"h",":","1","/","t","/","t">>
    /\ ret = Ok(<<"h","/","f","/","f">>)

\* C8 as claimed: the canonical name of any url, wrapped in any scheme again,
\* has itself as canonical name.
C8_Idempotent == fn = "rewrap" => ret2 = ret

\* the last '/'-separated segment of a string
LastSegment(s) == Split(s, "/")[Len(Split(s, "/"))]

\* C8 amended: the same for a url whose host is not a bracketed IPv6 literal,
\* unless the scheme wrapped around carries ;parameters (http, https, ftp, ...)
\* and the last segment of the canonical name holds a ';'.
C8_IdempotentOffParamsAndIPv6 ==
    fn = "rewrap"
    /\ ~Has(Split(ret.val, "/")[1], ":")
    /\ ~(urlparse(repo_url).scheme \in uses_params /\ Has(LastSegment(ret.val), ";"))
        => ret2 = ret

\* https://u:p@H:1/a// has the canonical name h/a, and so has ssh://h/a
C8_Witness ==
    /\ fn = "rewrap"
    /\ site = <<"h","t","t","p","s">> \o SchemeSep \o
              <<"u",":","p","@","H",":","1","/","a","/","/">>
    /\ repo_url = <<"s","s","h">> \o SchemeSep \o <<"h","/","a">>
    /\ ret = Ok(<<"h","/","a">>)
    /\ ret2 = ret

\* C10: a relative submodule url that resolves at all resolves to a name whose
\* first component is the host of the parent's remote url.
C10_HostIsKept ==
    fn = "resolve" /\ StartsWith(submodule_url, <<".", ".", "/">>) /\ ret.err = "none" =>
        Split(ret.val, "/")[1] = Split(url2canonical_name(repo_url).val, "/")[1]

=============================================================================
